---- MODULE Spec2Model ----
(***************************************************************************)
(* Model of the authentication subsystem of openapi_mcp_gen:                *)
(*   - AuthHandler (auth_type, credentials) and AuthHandler.get_auth,       *)
(*     src/src/openapi_mcp_gen/auth.py;                                     *)
(*   - the OAuth2Auth policy returned for the "oauth2" strategy, its token  *)
(*     cache _token, its asynchronous flow (async_auth_flow, _get_token)    *)
(*     and its synchronous flow (auth_flow), applied by several requests    *)
(*     that the transport may have in flight at once.                       *)
(*                                                                          *)
(* Python values are records tagged with their type: None, str, tuple.      *)
(***************************************************************************)
EXTENDS Integers, Sequences, FiniteSets, TLC

\* ------------------------------------------------------------- bounds
\* Largest number of elements of a credentials value that is enumerated.
MaxArity == 5
\* Number of requests the transport hands to one policy instance.
MaxRequests == 2

\* ------------------------------------------------------ Python values
PyNone == [t |-> "NoneType"]
Str(s) == [t |-> "str", v |-> s]
Tuple(q) == [t |-> "tuple", v |-> q]

\* bool(x): None, the empty string and the empty tuple are falsy.
Truthy(x) ==
    CASE x.t = "NoneType" -> FALSE
      [] x.t = "str" -> Len(x.v) > 0
      [] x.t = "tuple" -> Len(x.v) > 0

\* len(x) of a str or a tuple.
PyLen(x) == Len(x.v)

\* The i-th value that tuple unpacking (a, b = x) binds: an item of a tuple,
\* a one-character string of a str.
Elem(x, i) == IF x.t = "tuple" THEN x.v[i] ELSE Str(SubSeq(x.v, i, i))

\* str(x) as an f-string interpolates it: None is written "None".
Format(x) == IF x.t = "NoneType" THEN "None" ELSE x.v

\* x or y
PyOr(x, y) == IF Truthy(x) THEN x ELSE y

\* --------------------------------------------------- policies, errors
BasicAuth(username, password) ==
    [kind |-> "BasicAuth", username |-> username, password |-> password]

BearerAuth(tok) == [kind |-> "BearerAuth", token |-> tok]

APIKeyAuth(location, key_name, key_value) ==
    [kind |-> "APIKeyAuth", location |-> location, key_name |-> key_name,
     key_value |-> key_value]

OAuth2Auth(token_url, client_id, client_secret, scope) ==
    [kind |-> "OAuth2Auth", token_url |-> token_url, client_id |-> client_id,
     client_secret |-> client_secret, scope |-> scope]

ValueError(msg) == [kind |-> "ValueError", msg |-> msg]

BasicMessage == "Basic authentication requires username and password"
BearerMessage == "Bearer authentication requires a token"
ApiKeyMessage == "API key authentication requires location, name, and value"
OAuth2Message ==
    "OAuth2 authentication requires token URL, client ID, client secret, and scope"

\* The count test of one branch of get_auth: "not credentials or len(...) != n".
WrongCount(cr, n) == ~Truthy(cr) \/ PyLen(cr) # n

\* The presence test of the bearer branch: "not credentials".
BearerMissingLax(cr) == cr = PyNone
BearerMissing(cr) == ~Truthy(cr)

\* The tag the OAuth2 branch of get_auth compares auth_type with.
OAuth2TagLong == "oauth2_client_credentials"
OAuth2Tag == "oauth2"

\* The branches of get_auth. (The AtLeast forms test "len(...) < n".)
BasicBranchAtLeast(cr) ==
    IF cr.t = "NoneType" \/ PyLen(cr) < 2
    THEN ValueError(BasicMessage)
    ELSE BasicAuth(Elem(cr, 1), Elem(cr, 2))
BasicBranch(cr) ==
    IF WrongCount(cr, 2)
    THEN ValueError(BasicMessage)
    ELSE BasicAuth(Elem(cr, 1), Elem(cr, 2))

BearerBranch(cr) ==
    IF BearerMissing(cr) THEN ValueError(BearerMessage) ELSE BearerAuth(cr)

ApiKeyBranchAtLeast(cr) ==
    IF cr.t = "NoneType" \/ PyLen(cr) < 3
    THEN ValueError(ApiKeyMessage)
    ELSE APIKeyAuth(Elem(cr, 1), Elem(cr, 2), Elem(cr, 3))
ApiKeyBranch(cr) ==
    IF WrongCount(cr, 3)
    THEN ValueError(ApiKeyMessage)
    ELSE APIKeyAuth(Elem(cr, 1), Elem(cr, 2), Elem(cr, 3))

OAuth2BranchAtLeast(cr) ==
    IF cr.t = "NoneType" \/ PyLen(cr) < 4
    THEN ValueError(OAuth2Message)
    ELSE OAuth2Auth(Elem(cr, 1), Elem(cr, 2), Elem(cr, 3), Elem(cr, 4))
OAuth2Branch(cr) ==
    IF WrongCount(cr, 4)
    THEN ValueError(OAuth2Message)
    ELSE OAuth2Auth(Elem(cr, 1), Elem(cr, 2), Elem(cr, 3), Elem(cr, 4))

\* What get_auth does when no branch matches: "return None".
FallThroughRaises(at, cr) == ValueError("Unsupported authentication type")
FallThrough(at, cr) == PyNone

\* AuthHandler.get_auth: the policy returned, or the error raised.
get_auth(at, cr) ==
    IF at = Str("basic") THEN BasicBranch(cr)
    ELSE IF at = Str("bearer") THEN BearerBranch(cr)
    ELSE IF at = Str("api_key") THEN ApiKeyBranch(cr)
    ELSE IF at = Str(OAuth2Tag) THEN OAuth2Branch(cr)
    ELSE FallThrough(at, cr)

\* ------------------------------------------------------------ inputs
AuthTypes ==
    {PyNone, Str("basic"), Str("bearer"), Str("api_key"), Str("oauth2"),
     Str("oauth2_client_credentials"), Str("invalid"), Str("BASIC")}

\* The values a tuple's items are drawn from.
FieldValues == {Str(""), Str("k")}

RECURSIVE Repeat(_)
Repeat(n) == IF n = 0 THEN "" ELSE "a" \o Repeat(n - 1)

TuplesUpTo(n) == UNION {[1..k -> FieldValues] : k \in 0..n}

\* credentials: Optional[Union[str, Tuple]]
CredentialValues ==
    {PyNone} \cup {Str(Repeat(n)) : n \in 0..MaxArity}
             \cup {Tuple(q) : q \in TuplesUpTo(MaxArity)}

Requests == 1..MaxRequests

\* What the token endpoint may answer: a status and a body that is not JSON,
\* a JSON object without "access_token", or one with it.
Statuses == {200, 401, 503}
NotJson == [json |-> FALSE]
JsonBody(tok) == [json |-> TRUE, access_token |-> tok]
AccessTokens == {PyNone, Str(""), Str("t1"), Str("t2")}
Bodies == {NotJson} \cup {JsonBody(tok) : tok \in AccessTokens}
Responses == [status : Statuses, body : Bodies]

\* ------------------------------------------------------------- state
VARIABLES
    auth_type,     \* AuthHandler.auth_type
    credentials,   \* AuthHandler.credentials
    auth,          \* what get_auth returned or raised; Pending before the call
    _token,        \* OAuth2Auth._token, the token cache of the policy
    pc,            \* per request: idle, fetching, fetched, yielded, raised
    flow,          \* per request: the flow that applied it, "async" or "sync"
    seen,          \* per request: the _token its "if not self._token" read
    headers,       \* per request: its Authorization header, None when unset
    exc,           \* per request: the exception its apply raised, "" if none
    status,        \* per request: the status the token endpoint answered, 0 if none
    calls,         \* history: token-exchange POSTs issued by the policy
    unpopulated,   \* history: exchanges that ended without a usable token
    overlapped     \* history: a request was applied while another was in flight

\* State of the other parts of the program: a request signed by a static
\* policy, spec acquisition, the generate command.
VARIABLES
    request,       \* the outgoing request a static policy is applied to
    hist,          \* history: the request as built and after each apply
    path_or_url,   \* the path-or-URL string handed to spec acquisition
    fs,            \* environment: what is at that path: missing, file or dir
    text,          \* environment: the text of that file, or the download's body
    net,           \* environment: how urlopen ends for that URL
    loaded,        \* the finished spec-acquisition call: its outcome and effects
    argv,          \* the options of one invocation of the generate command
    cli,           \* the finished invocation: exit code, messages, bootstrap call
    boot_args,     \* the arguments of one call of create_and_run_mcp_server
    lib,           \* environment: how httpx and FastMCP end in that call
    boot,          \* the finished bootstrap call: what it called, how it ended
    handlers,      \* the AuthHandler objects of the process
    policies,      \* the policy objects get_auth created, in order of creation
    last           \* the policy whose token exchange was answered last, 0 if none

applyVars == <<request, hist>>
loadVars == <<path_or_url, fs, text, net, loaded>>
cliVars == <<argv, cli>>
bootVars == <<boot_args, lib, boot>>
instVars == <<handlers, policies, last>>
ext == <<applyVars, loadVars, cliVars, bootVars, instVars>>

vars ==
    <<auth_type, credentials, auth, _token, pc, flow, seen, headers, exc,
      status, calls, unpopulated, overlapped, ext>>

handler == <<auth_type, credentials>>

Pending == [kind |-> "pending"]

\* type(a).__name__ of what get_auth gave: a policy class, an error, NoneType.
Kind(a) == IF "kind" \in DOMAIN a THEN a.kind ELSE a.t

\* Values of the state of a part of the program that a specification leaves out.
Unused == [kind |-> "unused"]
ApplyIdle == request = Unused /\ hist = <<>>
LoadIdle ==
    /\ path_or_url = "" /\ fs = "missing" /\ text = "" /\ net = "ok"
    /\ loaded = Unused
CliIdle == argv = Unused /\ cli = Unused
BootIdle == boot_args = Unused /\ lib = Unused /\ boot = Unused
InstancesIdle == handlers = <<>> /\ policies = <<>> /\ last = 0

\* The OAuth2 request state before any request is applied.
RequestsIdle ==
    /\ _token = PyNone
    /\ pc = [r \in Requests |-> "idle"]
    /\ flow = [r \in Requests |-> ""]
    /\ seen = [r \in Requests |-> PyNone]
    /\ headers = [r \in Requests |-> PyNone]
    /\ exc = [r \in Requests |-> ""]
    /\ status = [r \in Requests |-> 0]
    /\ calls = 0
    /\ unpopulated = 0
    /\ overlapped = FALSE

oauthVars ==
    <<_token, pc, flow, seen, headers, exc, status, calls, unpopulated, overlapped>>

Init ==
    /\ auth_type \in AuthTypes
    /\ credentials \in CredentialValues
    /\ auth = Pending
    /\ RequestsIdle
    /\ ApplyIdle /\ LoadIdle /\ CliIdle /\ BootIdle /\ InstancesIdle

\* OAuth2Auth.__init__: self._token = None
InitialTokenPreset == Str("t1")
InitialToken == PyNone

\* auth = auth_handler.get_auth(); an OAuth2Auth starts with _token = None.
GetAuth ==
    /\ auth = Pending
    /\ auth' = get_auth(auth_type, credentials)
    /\ _token' = InitialToken
    /\ UNCHANGED <<handler, pc, flow, seen, headers, exc, status, calls,
                   unpopulated, overlapped>>
    /\ UNCHANGED ext

\* ------------------------------------------------------- OAuth2Auth
InFlight(r) == pc[r] \in {"fetching", "fetched"}

\* "if not self._token": whether async_auth_flow awaits _get_token().
NeedsFetchAlways(tok) == TRUE
NeedsFetchNever(tok) == FALSE
NeedsFetch(tok) == ~Truthy(tok)

\* token_data.get("access_token"): the value _get_token stores; None when the
\* JSON object has no such field.
StoredToken(body) == body.access_token

\* response.raise_for_status(): returns on a 2xx status, raises otherwise.
IsSuccessIgnored(st) == TRUE
IsSuccess(st) == st \in 200..299

\* f"Bearer {token}"
Bearer(tok) == Str("Bearer " \o Format(tok))

\* async_auth_flow up to its first suspension: the cache test, then either the
\* POST of _get_token or, with a cached token, the header and the yield.
AsyncStart(r) ==
    /\ Kind(auth) = "OAuth2Auth"
    /\ pc[r] = "idle"
    /\ flow' = [flow EXCEPT ![r] = "async"]
    /\ seen' = [seen EXCEPT ![r] = _token]
    /\ overlapped' = (overlapped \/ \E q \in Requests : InFlight(q))
    /\ IF NeedsFetch(_token)
       THEN /\ pc' = [pc EXCEPT ![r] = "fetching"]
            /\ calls' = calls + 1
            /\ UNCHANGED headers
       ELSE /\ pc' = [pc EXCEPT ![r] = "yielded"]
            /\ headers' = [headers EXCEPT ![r] = Bearer(_token)]
            /\ UNCHANGED calls
    /\ UNCHANGED <<handler, auth, _token, exc, status, unpopulated>>
    /\ UNCHANGED ext

\* _get_token once the POST is answered: raise_for_status, json, the store.
ExchangeResponse(r, resp) ==
    /\ pc[r] = "fetching"
    /\ status' = [status EXCEPT ![r] = resp.status]
    /\ IF ~IsSuccess(resp.status)
       THEN /\ pc' = [pc EXCEPT ![r] = "raised"]
            /\ exc' = [exc EXCEPT ![r] = "HTTPStatusError"]
            /\ unpopulated' = unpopulated + 1
            /\ UNCHANGED _token
       ELSE IF ~resp.body.json
       THEN /\ pc' = [pc EXCEPT ![r] = "raised"]
            /\ exc' = [exc EXCEPT ![r] = "JSONDecodeError"]
            /\ unpopulated' = unpopulated + 1
            /\ UNCHANGED _token
       ELSE /\ pc' = [pc EXCEPT ![r] = "fetched"]
            /\ _token' = StoredToken(resp.body)
            /\ unpopulated' =
                   IF Truthy(resp.body.access_token) THEN unpopulated
                   ELSE unpopulated + 1
            /\ UNCHANGED exc
    /\ UNCHANGED <<handler, auth, flow, seen, headers, calls, overlapped>>
    /\ UNCHANGED ext

\* async_auth_flow after _get_token returned: the header, then the yield.
AsyncSign(r) ==
    /\ pc[r] = "fetched"
    /\ headers' = [headers EXCEPT ![r] = Bearer(_token)]
    /\ pc' = [pc EXCEPT ![r] = "yielded"]
    /\ UNCHANGED <<handler, auth, _token, flow, seen, exc, status, calls,
                   unpopulated, overlapped>>
    /\ UNCHANGED ext

\* auth_flow, the synchronous flow: no exchange, the cache or a placeholder.
SyncApply(r) ==
    /\ Kind(auth) = "OAuth2Auth"
    /\ pc[r] = "idle"
    /\ flow' = [flow EXCEPT ![r] = "sync"]
    /\ seen' = [seen EXCEPT ![r] = _token]
    /\ overlapped' = (overlapped \/ \E q \in Requests : InFlight(q))
    /\ headers' =
           [headers EXCEPT ![r] = Bearer(PyOr(_token, Str("token_placeholder")))]
    /\ pc' = [pc EXCEPT ![r] = "yielded"]
    /\ UNCHANGED <<handler, auth, _token, exc, status, calls, unpopulated>>
    /\ UNCHANGED ext

Next ==
    \/ GetAuth
    \/ \E r \in Requests : AsyncStart(r)
    \/ \E r \in Requests, resp \in Responses : ExchangeResponse(r, resp)
    \/ \E r \in Requests : AsyncSign(r)
    \/ \E r \in Requests : SyncApply(r)

Spec == Init /\ [][Next]_vars

\* ------------------------------------------------ static policies
\* Number of times the transport applies the policy to the request.
MaxApplies == 2

\* The items of q at the positions in keep, in order.
RECURSIVE Pick(_, _, _)
Pick(q, keep, i) ==
    IF i > Len(q) THEN <<>>
    ELSE (IF i \in keep THEN <<q[i]>> ELSE <<>>) \o Pick(q, keep, i + 1)

\* key.lower(): httpx.Headers compares header names without case.
Lower(name) ==
    CASE name = "Authorization" -> "authorization"
      [] name = "X-API-Key" -> "x-api-key"
      [] name = "Accept" -> "accept"
      [] OTHER -> name

\* request.headers[name] = value (httpx.Headers.__setitem__): the first entry
\* of that name is replaced, its duplicates are removed; with no such entry
\* the header is appended.
SetHeaderAppend(hs, name, value) == Append(hs, [name |-> name, value |-> value])
SetHeader(hs, name, value) ==
    LET same == {i \in 1..Len(hs) : Lower(hs[i].name) = Lower(name)}
    IN  IF same = {}
        THEN Append(hs, [name |-> name, value |-> value])
        ELSE LET first == CHOOSE i \in same : \A j \in same : i <= j
             IN  Pick([hs EXCEPT ![first] = [name |-> name, value |-> value]],
                      (1..Len(hs)) \ (same \ {first}), 1)

\* dict(request.url.params): QueryParams is a mapping whose keys() are the
\* distinct keys in order of first occurrence and whose [key] is the first
\* value of the key.
ParamsDict(q) ==
    Pick(q, {i \in 1..Len(q) : \A j \in 1..(i - 1) : q[j].key # q[i].key}, 1)

\* params[key] = value on a dict: in place when the key is there, else appended.
DictSetAppend(d, key, value) == Append(d, [key |-> key, value |-> value])
DictSet(d, key, value) ==
    IF \E i \in 1..Len(d) : d[i].key = key
    THEN [i \in 1..Len(d) |->
             IF d[i].key = key THEN [key |-> key, value |-> value] ELSE d[i]]
    ELSE Append(d, [key |-> key, value |-> value])

\* base64.b64encode of a sequence of bytes.
B64Alphabet ==
    "ABCDEFGHIJKLMNOPQRSTUVWXYZabcdefghijklmnopqrstuvwxyz0123456789+/"
B64Char(n) == SubSeq(B64Alphabet, n + 1, n + 1)

RECURSIVE b64encode(_)
b64encode(b) ==
    IF Len(b) = 0 THEN ""
    ELSE IF Len(b) = 1
    THEN B64Char(b[1] \div 4) \o B64Char((b[1] % 4) * 16) \o "=="
    ELSE IF Len(b) = 2
    THEN B64Char(b[1] \div 4) \o B64Char((b[1] % 4) * 16 + b[2] \div 16)
             \o B64Char((b[2] % 16) * 4) \o "="
    ELSE B64Char(b[1] \div 4) \o B64Char((b[1] % 4) * 16 + b[2] \div 16)
             \o B64Char((b[2] % 16) * 4 + b[3] \div 64) \o B64Char(b[3] % 64)
             \o b64encode(SubSeq(b, 4, Len(b)))

\* ord(c) of the characters user names and passwords are made of.
Ord(c) ==
    CASE c = ":" -> 58
      [] c = "p" -> 112
      [] c = "u" -> 117

\* s.encode(): the bytes of a string.
RECURSIVE to_bytes(_)
to_bytes(s) ==
    IF Len(s) = 0 THEN <<>>
    ELSE <<Ord(SubSeq(s, 1, 1))>> \o to_bytes(SubSeq(s, 2, Len(s)))

\* httpx.BasicAuth: "Basic " + b64encode(username + b":" + password).
BasicHeaderNoSeparator(username, password) ==
    "Basic " \o b64encode(to_bytes(username) \o to_bytes(password))
BasicHeader(username, password) ==
    "Basic " \o b64encode(to_bytes(username) \o <<58>> \o to_bytes(password))

\* if self.location == "header"
InHeaderUnlessQuery(location) == location # Str("query")
InHeader(location) == location = Str("header")

\* auth_flow of the policy a, applied to the request rq.
ApplyPolicy(a, rq) ==
    CASE Kind(a) = "BearerAuth" ->
           [rq EXCEPT !.headers = SetHeader(@, "Authorization", Bearer(a.token).v)]
      [] Kind(a) = "APIKeyAuth" ->
           IF InHeader(a.location)
           THEN [rq EXCEPT !.headers = SetHeader(@, a.key_name.v, a.key_value.v)]
           ELSE IF a.location = Str("query")
           THEN [rq EXCEPT
                    !.query = DictSet(ParamsDict(@), a.key_name.v, a.key_value.v)]
           ELSE rq
      [] Kind(a) = "BasicAuth" ->
           [rq EXCEPT !.headers =
               SetHeader(@, "Authorization", BasicHeader(a.username.v, a.password.v))]
      [] Kind(a) = "OAuth2Auth" ->
           [rq EXCEPT !.headers =
               SetHeader(@, "Authorization",
                         Bearer(PyOr(_token, Str("token_placeholder"))).v)]
      [] OTHER -> rq

\* The handlers whose policy is applied: well-formed bundles of each strategy.
BasicFields == {"", "u", "u:p", ":p"}
KeyNames == {"X-API-Key", "api_key", "a"}
ApplyInputs ==
    {[at |-> Str("basic"), cr |-> Tuple(<<Str(u), Str(w)>>)] :
         u \in BasicFields, w \in BasicFields}
    \cup {[at |-> Str("bearer"), cr |-> Str(tk)] : tk \in {"tok", "t2"}}
    \cup {[at |-> Str("api_key"), cr |-> Tuple(<<Str(l), Str(n), Str(w)>>)] :
              l \in {"header", "query", "cookie"}, n \in KeyNames, w \in {"v", ""}}
    \cup {[at |-> Str("oauth2"),
           cr |-> Tuple(<<Str("https://auth/token"), Str("id"), Str("secret"),
                          Str("read")>>)]}
    \cup {[at |-> PyNone, cr |-> PyNone]}

\* The requests the transport builds: header entries and query parameters.
Header(name, value) == [name |-> name, value |-> value]
Param(key, value) == [key |-> key, value |-> value]
RequestHeaders ==
    {<<>>,
     <<Header("Accept", "json")>>,
     <<Header("authorization", "old"), Header("Accept", "json")>>,
     <<Header("x-api-key", "old"), Header("Accept", "json"),
       Header("X-API-Key", "older")>>}
RequestQueries ==
    {<<>>,
     <<Param("a", "1")>>,
     <<Param("b", "1"), Param("b", "2")>>,
     <<Param("api_key", "old"), Param("b", "1")>>,
     <<Param("b", "1"), Param("api_key", "old"), Param("api_key", "older")>>}
RequestValues == [headers : RequestHeaders, query : RequestQueries]

InitApply ==
    /\ \E i \in ApplyInputs : auth_type = i.at /\ credentials = i.cr
    /\ auth = Pending
    /\ RequestsIdle
    /\ request \in RequestValues
    /\ hist = <<request>>
    /\ LoadIdle /\ CliIdle /\ BootIdle /\ InstancesIdle

\* The transport runs the policy's auth_flow on the request and sends what it
\* yields.
Apply ==
    /\ auth # Pending
    /\ Kind(auth) # "ValueError"
    /\ Len(hist) <= MaxApplies
    /\ request' = ApplyPolicy(auth, request)
    /\ hist' = Append(hist, request')
    /\ UNCHANGED <<handler, auth, oauthVars, bootVars, instVars, loadVars, cliVars>>

NextApply ==
    \/ GetAuth
    \/ Apply

SpecApply == InitApply /\ [][NextApply]_vars

\* ------------------------------------------------ spec acquisition
\* Characters, by their place in these strings.
Lowercase == "abcdefghijklmnopqrstuvwxyz"
Uppercase == "ABCDEFGHIJKLMNOPQRSTUVWXYZ"
Digits == "0123456789"

CharAt(s, i) == SubSeq(s, i, i)

\* s.find(c) + 1: the place of the first c in s, 0 when there is none.
Find(c, s) ==
    LET at == {i \in 1..Len(s) : CharAt(s, i) = c}
    IN  IF at = {} THEN 0 ELSE CHOOSE i \in at : \A j \in at : i <= j

isalpha(c) == Find(c, Lowercase) > 0 \/ Find(c, Uppercase) > 0

\* urllib.parse.scheme_chars
scheme_chars(c) == isalpha(c) \/ Find(c, Digits) > 0 \/ Find(c, "+-.") > 0

\* str.lower()
RECURSIVE str_lower(_)
str_lower(s) ==
    IF Len(s) = 0 THEN ""
    ELSE LET c == CharAt(s, 1)
             u == Find(c, Uppercase)
         IN  (IF u > 0 THEN CharAt(Lowercase, u) ELSE c)
                 \o str_lower(SubSeq(s, 2, Len(s)))

\* urllib.parse.urlparse(url): the scheme is what stands before the first ":"
\* when that starts with a letter and is made of scheme characters, in lower
\* case; the netloc is what follows a leading "//" up to the next "/", "?"
\* or "#".
urlparse(url) ==
    LET i == Find(":", url)
        has == /\ i > 1
               /\ isalpha(CharAt(url, 1))
               /\ \A k \in 1..(i - 1) : scheme_chars(CharAt(url, k))
        rest == IF has THEN SubSeq(url, i + 1, Len(url)) ELSE url
        stops == {k \in 3..Len(rest) : CharAt(rest, k) \in {"/", "?", "#"}}
        delim == IF stops = {} THEN Len(rest) + 1
                 ELSE CHOOSE k \in stops : \A j \in stops : k <= j
    IN  [scheme |-> IF has THEN str_lower(SubSeq(url, 1, i - 1)) ELSE "",
         netloc |-> IF Len(rest) >= 2 /\ SubSeq(rest, 1, 2) = "//"
                    THEN SubSeq(rest, 3, delim - 1) ELSE ""]

\* is_url: the scheme alone decides.
is_url_with_host(path) ==
    urlparse(path).scheme \in {"http", "https"} /\ urlparse(path).netloc # ""
is_url(path) == urlparse(path).scheme \in {"http", "https"}

\* Values the parsers give, and what the functions raise.
Dict(items) == [t |-> "dict", v |-> items]
Raised(kind) == [kind |-> kind]
FileNotFoundError(msg) == [kind |-> "FileNotFoundError", msg |-> msg]
IsErrorNever(x) == FALSE
IsError(x) == "kind" \in DOMAIN x

\* The texts a file or a download holds.
EmptyText == ""
JsonText == "{\"openapi\": \"3.0.0\"}"
YamlText == "openapi: 3.0.0"
PlainText == "this is not valid yaml or json content { [ invalid"
BrokenText == "{ invalid json without closing brace"
TabbedJsonText == "{\n\t\"a\": 1\n}"
Texts ==
    {EmptyText, JsonText, YamlText, PlainText, BrokenText, TabbedJsonText}

\* yaml.safe_load on these texts: an empty document is None, a flow mapping
\* or a block mapping is a dict, a plain line is a scalar string; an
\* unclosed flow mapping and a tab inside a flow mapping are YAML errors.
yaml_safe_load(s) ==
    CASE s = EmptyText -> PyNone
      [] s = JsonText -> Dict(<<"openapi", "3.0.0">>)
      [] s = YamlText -> Dict(<<"openapi", "3.0.0">>)
      [] s = PlainText -> Str(PlainText)
      [] OTHER -> Raised("YAMLError")

\* json.loads on these texts and on the tails of them.
json_loads(s) ==
    CASE s = JsonText -> Dict(<<"openapi", "3.0.0">>)
      [] s = TabbedJsonText -> Dict(<<"a", "1">>)
      [] OTHER -> Raised("JSONDecodeError")

\* What a call did, in order, and what it returned or raised.
Outcome(events, result) == [events |-> events, result |-> result]

\* except yaml.YAMLError: the JSON fallback is taken for a YAML error only.
FallbackAlways(y) == TRUE
Fallback(y) == Kind(y) = "YAMLError"

\* load_from_content: YAML first, JSON after a YAML error.
load_from_content(content) ==
    LET y == yaml_safe_load(content)
    IN  IF Fallback(y)
        THEN Outcome(<<"yaml.safe_load", "json.loads">>, json_loads(content))
        ELSE Outcome(<<"yaml.safe_load">>, y)

\* f.seek(0): the position json.load reads from.
SeekPos == 0

\* f.seek(offset) on a file read up to pos: the position it leaves.
seek_skipped(pos, offset) == pos
seek(pos, offset) == offset

\* load_from_file: open, YAML first; after a YAML error rewind and read JSON.
load_from_file(what, content) ==
    IF what = "missing"
    THEN Outcome(<<"open">>, FileNotFoundError("No such file or directory"))
    ELSE IF what = "dir"
    THEN Outcome(<<"open">>, Raised("IsADirectoryError"))
    ELSE LET y == yaml_safe_load(content)
         IN  IF Fallback(y)
             THEN Outcome(<<"open", "yaml.safe_load", "seek", "json.load">>,
                          json_loads(SubSeq(content,
                                            seek(Len(content), SeekPos) + 1,
                                            Len(content))))
             ELSE Outcome(<<"open", "yaml.safe_load">>, y)

\* The URLs download_from_url refuses before it opens anything.
InvalidURLSchemeOnly(url) == urlparse(url).scheme \notin {"http", "https"}
InvalidURL(url) ==
    \/ urlparse(url).scheme = ""
    \/ urlparse(url).netloc = ""
    \/ urlparse(url).scheme \notin {"http", "https"}

\* download_from_url: validate, then one urlopen; its error is not caught.
download_from_url(url, body, how) ==
    IF InvalidURL(url)
    THEN Outcome(<<"download_from_url">>, ValueError("Invalid URL: " \o url))
    ELSE IF how = "ok"
    THEN Outcome(<<"download_from_url", "urlopen", "read", "decode">>, Str(body))
    ELSE IF how = "UnicodeDecodeError"
    THEN Outcome(<<"download_from_url", "urlopen", "read", "decode">>, Raised(how))
    ELSE Outcome(<<"download_from_url", "urlopen">>, Raised(how))

\* Path.exists()
existsAlways(what) == TRUE
exists(what) == what # "missing"

\* load_from_path_or_url
load_from_path_or_url(p, what, content, how) ==
    IF is_url(p)
    THEN LET d == download_from_url(p, content, how)
         IN  IF IsError(d.result) THEN d
             ELSE LET c == load_from_content(d.result.v)
                  IN  Outcome(d.events \o <<"load_from_content">> \o c.events,
                              c.result)
    ELSE IF ~exists(what)
    THEN Outcome(<<"exists">>, FileNotFoundError("File not found: " \o p))
    ELSE LET f == load_from_file(what, content)
         IN  Outcome(<<"exists", "load_from_file">> \o f.events, f.result)

\* The strings handed in as path or URL.
Paths ==
    {"http://example.com/api.json", "https://h/s", "HTTP://H/x", "https://h?q",
     "/local/path.yaml", "file.json", "ftp://host/x", "mailto:u@h",
     "invalid://scheme", "http:///p", "https://", "http:", "//host/p",
     "1http://h/x", ""}

\* How urlopen and the decoding of the body end.
NetOutcomes == {"ok", "URLError", "HTTPError", "UnicodeDecodeError"}

\* Path("") is the working directory.
InitLoad ==
    /\ auth_type = PyNone /\ credentials = PyNone /\ auth = Pending
    /\ RequestsIdle
    /\ ApplyIdle /\ CliIdle /\ BootIdle /\ InstancesIdle
    /\ path_or_url \in Paths
    /\ fs \in {"missing", "file", "dir"}
    /\ path_or_url = "" => fs = "dir"
    /\ text \in Texts
    /\ net \in NetOutcomes
    /\ loaded = Unused

Done(op, o) == [op |-> op, events |-> o.events, result |-> o.result]

LoadFromPathOrUrl ==
    /\ loaded = Unused
    /\ loaded' = Done("load_from_path_or_url",
                      load_from_path_or_url(path_or_url, fs, text, net))
    /\ UNCHANGED <<handler, auth, oauthVars, bootVars, instVars, applyVars, cliVars,
                   path_or_url, fs, text, net>>

DownloadFromUrl ==
    /\ loaded = Unused
    /\ loaded' = Done("download_from_url",
                      download_from_url(path_or_url, text, net))
    /\ UNCHANGED <<handler, auth, oauthVars, bootVars, instVars, applyVars, cliVars,
                   path_or_url, fs, text, net>>

LoadFromContent ==
    /\ loaded = Unused
    /\ loaded' = Done("load_from_content", load_from_content(text))
    /\ UNCHANGED <<handler, auth, oauthVars, bootVars, instVars, applyVars, cliVars,
                   path_or_url, fs, text, net>>

LoadFromFile ==
    /\ loaded = Unused
    /\ loaded' = Done("load_from_file", load_from_file(fs, text))
    /\ UNCHANGED <<handler, auth, oauthVars, bootVars, instVars, applyVars, cliVars,
                   path_or_url, fs, text, net>>

NextLoad ==
    \/ LoadFromPathOrUrl
    \/ DownloadFromUrl
    \/ LoadFromContent
    \/ LoadFromFile

SpecLoad == InitLoad /\ [][NextLoad]_vars

\* ------------------------------------------------ command line
\* The options of generate as typed; None for an option that is not given.
NoOptions ==
    [path |-> PyNone, base_url |-> PyNone, auth_type |-> PyNone,
     basic_username |-> PyNone, basic_password |-> PyNone,
     bearer_token |-> PyNone,
     api_key_location |-> PyNone, api_key_name |-> PyNone,
     api_key_value |-> PyNone,
     oauth_token_url |-> PyNone, oauth_client_id |-> PyNone,
     oauth_client_secret |-> PyNone, oauth_scope |-> PyNone]

\* An option left out, given empty, or given the value v.
Given(v) == {PyNone, Str(""), Str(v)}

AuthOptions ==
    {[NoOptions EXCEPT !.bearer_token = o] : o \in {PyNone, Str("z")}}
    \cup {[NoOptions EXCEPT !.auth_type = Str("digest")]}
    \cup {[NoOptions EXCEPT !.auth_type = Str(a), !.basic_username = u,
                            !.basic_password = w, !.bearer_token = o] :
              a \in {"basic", "BASIC"}, u \in Given("user"), w \in Given("pass"),
              o \in {PyNone, Str("z")}}
    \cup {[NoOptions EXCEPT !.auth_type = Str("bearer"), !.bearer_token = b,
                            !.basic_username = o] :
              b \in Given("tok"), o \in {PyNone, Str("z")}}
    \cup {[NoOptions EXCEPT !.auth_type = Str("api_key"),
                            !.api_key_location = l, !.api_key_name = n,
                            !.api_key_value = w] :
              l \in {PyNone, Str("header"), Str("query"), Str("cookie")},
              n \in Given("X-API-Key"), w \in Given("key")}
    \cup {[NoOptions EXCEPT !.auth_type = Str("oauth2"),
                            !.oauth_token_url = u, !.oauth_client_id = i,
                            !.oauth_client_secret = c, !.oauth_scope = sc] :
              u \in Given("https://auth/token"), i \in Given("id"),
              c \in Given("secret"), sc \in Given("read")}

ArgvValues ==
    {[a EXCEPT !.path = f, !.base_url = b] :
         a \in AuthOptions,
         f \in {PyNone, Str("spec.yaml"), Str("https://h/s")},
         b \in {PyNone, Str("https://api")}}

\* click.Choice(choices, case_sensitive=False): the choice the value names.
AuthTypeChoices == {"basic", "bearer", "api_key", "oauth2"}
LocationChoices == {"header", "query"}
IsChoice(v, choices) ==
    v = PyNone \/ \E c \in choices : str_lower(c) = str_lower(v.v)
Choice(v, choices) ==
    IF v = PyNone THEN PyNone
    ELSE Str(CHOOSE c \in choices : str_lower(c) = str_lower(v.v))

\* What click refuses before the command runs.
UsageErrors(a) ==
    (IF a.path = PyNone THEN {"Error: Missing option '--path'."} ELSE {})
    \cup (IF IsChoice(a.auth_type, AuthTypeChoices) THEN {}
          ELSE {"Error: Invalid value for '--auth-type'"})
    \cup (IF IsChoice(a.api_key_location, LocationChoices) THEN {}
          ELSE {"Error: Invalid value for '--api-key-location'"})

\* click.ClickException(message)
ClickException(msg) == [kind |-> "ClickException", msg |-> msg]

CliBasicMessage == "Basic authentication requires both username and password."
CliBearerMessage == "Bearer authentication requires a token."
CliApiKeyMessage == "API key authentication requires location, name, and value."
CliOAuth2Message ==
    "OAuth2 authentication requires token URL, client ID, client secret, and scope."

\* "if not a or not b ...": one of the options is missing or empty.
AnyMissingNever(q) == FALSE
AnyMissing(q) == \E i \in 1..Len(q) : ~Truthy(q[i])

\* The validation of the authentication options: the credentials, or the
\* exception raised.
Validate(o) ==
    CASE o.auth_type = Str("basic") ->
           IF AnyMissing(<<o.basic_username, o.basic_password>>)
           THEN ClickException(CliBasicMessage)
           ELSE Tuple(<<o.basic_username, o.basic_password>>)
      [] o.auth_type = Str("bearer") ->
           IF AnyMissing(<<o.bearer_token>>)
           THEN ClickException(CliBearerMessage)
           ELSE o.bearer_token
      [] o.auth_type = Str("api_key") ->
           IF AnyMissing(<<o.api_key_location, o.api_key_name, o.api_key_value>>)
           THEN ClickException(CliApiKeyMessage)
           ELSE Tuple(<<o.api_key_location, o.api_key_name, o.api_key_value>>)
      [] o.auth_type = Str("oauth2") ->
           IF AnyMissing(<<o.oauth_token_url, o.oauth_client_id,
                           o.oauth_client_secret, o.oauth_scope>>)
           THEN ClickException(CliOAuth2Message)
           ELSE Tuple(<<o.oauth_token_url, o.oauth_client_id,
                        o.oauth_client_secret, o.oauth_scope>>)
      [] OTHER -> PyNone

\* server_kwargs
ServerKwargs(o, creds) ==
    IF Truthy(o.base_url)
    THEN [openapi_spec_path |-> o.path, host |-> "0.0.0.0", port |-> 3000,
          name |-> "MCP Server", auth_type |-> o.auth_type,
          credentials |-> creds, base_url |-> o.base_url]
    ELSE [openapi_spec_path |-> o.path, host |-> "0.0.0.0", port |-> 3000,
          name |-> "MCP Server", auth_type |-> o.auth_type,
          credentials |-> creds]

\* The parameters of the create_and_run_mcp_server the command imports.
BootstrapParams == {"openapi_spec_path", "host", "port", "name", "base_url"}

\* create_and_run_mcp_server(**kw): a keyword that is no parameter is a
\* TypeError at the call; else the spec file is loaded and the server runs
\* until it stops.
create_and_run_mcp_server(kw, what, content) ==
    IF ~(DOMAIN kw \subseteq BootstrapParams)
    THEN [kind |-> "TypeError",
          msg |-> "create_and_run_mcp_server() got an unexpected keyword argument"]
    ELSE load_from_file(what, content).result

\* What an exception prints as: str(e).
ErrorText(e) == IF "msg" \in DOMAIN e THEN e.msg ELSE e.kind

\* How the process ends: what went to stdout and to stderr, the exit code,
\* the keyword arguments of each call of the bootstrap and whether a call
\* returned.
Exited(out, err, code, made, returned) ==
    [stage |-> "exited", out |-> out, err |-> err, exit_code |-> code,
     calls |-> made, returned |-> returned]

\* "except Exception as e": echo, then raise click.ClickException(str(e)),
\* which click prints and turns into exit code 1.
Failed(out, e, made) ==
    Exited(out,
           <<"Error running MCP server: " \o ErrorText(e),
             "Error: " \o ErrorText(e)>>,
           1, made, FALSE)

\* The body of generate, from the parsed options o.
generate(o, what, content) ==
    IF ~exists(what)
    THEN Exited(<<>>, <<"Error: Input file not found: " \o o.path.v>>, 0,
                <<>>, FALSE)
    ELSE LET out == <<"Starting MCP server from: " \o o.path.v,
                      "Server will run on: 0.0.0.0:3000">>
                        \o (IF Truthy(o.base_url)
                            THEN <<"Using base URL: " \o o.base_url.v>> ELSE <<>>)
                        \o (IF Truthy(o.auth_type)
                            THEN <<"Using authentication type: " \o o.auth_type.v>>
                            ELSE <<>>)
             creds == Validate(o)
         IN  IF IsError(creds) THEN Failed(out, creds, <<>>)
             ELSE LET kw == ServerKwargs(o, creds)
                      r == create_and_run_mcp_server(kw, what, content)
                  IN  IF IsError(r) THEN Failed(out, r, <<kw>>)
                      ELSE Exited(out, <<>>, 0, <<kw>>, TRUE)

\* One usage error at most per command line.
InitCli ==
    /\ auth_type = PyNone /\ credentials = PyNone /\ auth = Pending
    /\ RequestsIdle
    /\ ApplyIdle /\ BootIdle /\ InstancesIdle
    /\ path_or_url = "" /\ net = "ok" /\ loaded = Unused
    /\ fs \in {"missing", "file", "dir"}
    /\ text \in {JsonText, BrokenText}
    /\ argv \in ArgvValues
    /\ Cardinality(UsageErrors(argv)) <= 1
    /\ cli = [stage |-> "start"]

\* click parses the command line: a usage error ends the process with exit
\* code 2, else the options are handed to the command.
ClickParse ==
    /\ cli.stage = "start"
    /\ cli' = IF UsageErrors(argv) # {}
              THEN Exited(<<>>, <<CHOOSE m \in UsageErrors(argv) : TRUE>>, 2,
                          <<>>, FALSE)
              ELSE [stage |-> "parsed",
                    params |-> [argv EXCEPT
                        !.auth_type = Choice(@, AuthTypeChoices),
                        !.api_key_location = Choice(@, LocationChoices)]]
    /\ UNCHANGED <<handler, auth, oauthVars, bootVars, instVars, applyVars, loadVars, argv>>

Generate ==
    /\ cli.stage = "parsed"
    /\ cli' = generate(cli.params, fs, text)
    /\ UNCHANGED <<handler, auth, oauthVars, bootVars, instVars, applyVars, loadVars, argv>>

NextCli ==
    \/ ClickParse
    \/ Generate

SpecCli == InitCli /\ [][NextCli]_vars

\* ------------------------------------------------ server bootstrap
\* A call the bootstrap makes, with its keyword arguments.
Call(name, args) == [call |-> name, args |-> args]

\* mcp_server.run(transport="http", ...)
TransportStdio == "stdio"
Transport == "http"

\* create_and_run_mcp_server of openapi_mcp_gen.server: the spec is parsed if
\* it is a string, the policy resolved, the client built, the tools
\* generated and the server run, each step only when the one before did not
\* raise. Gives the calls made in order, what get_auth gave (Pending when it
\* was not reached) and None or the exception that ended the call.
mcp_gen_create_and_run_mcp_server(a, at, cr, env) ==
    LET parse == IF a.openapi_spec.t = "str"
                 THEN load_from_content(a.openapi_spec.v)
                 ELSE Outcome(<<>>, a.openapi_spec)
        e1 == IF a.openapi_spec.t = "str"
              THEN <<Call("load_from_content", [content |-> a.openapi_spec])>>
              ELSE <<>>
        pol == get_auth(at, cr)
        e2 == e1 \o <<Call("get_auth", [auth_type |-> at, credentials |-> cr])>>
        client == [base_url |-> a.base_url, auth |-> pol]
        e3 == e2 \o <<Call("AsyncClient", client)>>
        e4 == e3 \o <<Call("from_openapi",
                           [openapi_spec |-> parse.result, client |-> client,
                            name |-> a.name])>>
        e5 == e4 \o <<Call("run", [transport |-> Transport, host |-> a.host,
                                   port |-> a.port])>>
    IN  IF IsError(parse.result)
        THEN [events |-> e1, auth |-> Pending, result |-> parse.result]
        ELSE IF Kind(pol) = "ValueError"
        THEN [events |-> e2, auth |-> pol, result |-> pol]
        ELSE IF env.client # "ok"
        THEN [events |-> e3, auth |-> pol, result |-> Raised(env.client)]
        ELSE IF env.from_openapi # "ok"
        THEN [events |-> e4, auth |-> pol, result |-> Raised(env.from_openapi)]
        ELSE IF env.run # "returned"
        THEN [events |-> e5, auth |-> pol, result |-> Raised(env.run)]
        ELSE [events |-> e5, auth |-> pol, result |-> PyNone]

\* The arguments of the call and the handlers it is made with.
BootArgs ==
    [openapi_spec : {Dict(<<"openapi", "3.0.0">>)} \cup {Str(t) : t \in Texts},
     base_url : {PyNone, Str("https://api")},
     host : {"0.0.0.0", "127.0.0.1"},
     port : {8000},
     name : {"Generated MCP Server"}]
BootHandlers ==
    {[at |-> PyNone, cr |-> PyNone],
     [at |-> Str("basic"), cr |-> Tuple(<<Str("k"), Str("k")>>)],
     [at |-> Str("basic"), cr |-> Tuple(<<Str("k")>>)],
     [at |-> Str("bearer"), cr |-> Str("a")],
     [at |-> Str("bearer"), cr |-> Str("")],
     [at |-> Str("api_key"), cr |-> Tuple(<<Str("k"), Str("k"), Str("k")>>)],
     [at |-> Str("oauth2"), cr |-> Tuple(<<Str("k"), Str("k"), Str("k"), Str("k")>>)],
     [at |-> Str("oauth2"), cr |-> PyNone],
     [at |-> Str("invalid"), cr |-> PyNone]}

\* How the library calls end: httpx.AsyncClient(...), FastMCP.from_openapi(...)
\* and mcp_server.run(...), which returns when the server stops.
LibOutcomes ==
    [client : {"ok", "TypeError"}, from_openapi : {"ok", "ValueError"},
     run : {"returned", "OSError"}]

InitBoot ==
    /\ \E h \in BootHandlers : auth_type = h.at /\ credentials = h.cr
    /\ auth = Pending
    /\ RequestsIdle
    /\ ApplyIdle /\ LoadIdle /\ CliIdle /\ InstancesIdle
    /\ boot_args \in BootArgs
    /\ lib \in LibOutcomes
    /\ boot = Unused

CreateAndRun ==
    /\ boot = Unused
    /\ LET b == mcp_gen_create_and_run_mcp_server(boot_args, auth_type,
                                                  credentials, lib)
       IN  /\ boot' = [events |-> b.events, result |-> b.result]
           /\ auth' = b.auth
    /\ UNCHANGED <<handler, oauthVars, applyVars, loadVars, cliVars, instVars,
                   boot_args, lib>>

NextBoot == CreateAndRun

SpecBoot == InitBoot /\ [][NextBoot]_vars

\* ------------------------------------------------ policy instances
\* Number of policies get_auth is asked for.
MaxPolicies == 2

\* The AuthHandler objects: two OAuth2 bundles and a bearer token.
HandlerValues ==
    {[auth_type |-> Str("oauth2"),
      credentials |-> Tuple(<<Str("k"), Str("k"), Str("k"), Str("k")>>)],
     [auth_type |-> Str("oauth2"),
      credentials |-> Tuple(<<Str("k"), Str("a"), Str("k"), Str("k")>>)],
     [auth_type |-> Str("bearer"), credentials |-> Str("a")]}

\* self._token = ...: the object whose attribute _get_token of policy i
\* assigns.
TokenOwnerShared(i) == IF i > 1 THEN i - 1 ELSE i
TokenOwner(i) == i

InitInstances ==
    /\ auth_type = PyNone /\ credentials = PyNone /\ auth = Pending
    /\ RequestsIdle
    /\ ApplyIdle /\ LoadIdle /\ CliIdle /\ BootIdle
    /\ handlers \in [1..2 -> HandlerValues]
    /\ policies = <<>>
    /\ last = 0

\* handlers[h].get_auth(): a new policy object; the handler keeps its fields.
GetAuthOf(h) ==
    /\ Len(policies) < MaxPolicies
    /\ policies' = Append(policies,
           [handler |-> h,
            auth |-> get_auth(handlers[h].auth_type, handlers[h].credentials),
            _token |-> InitialToken])
    /\ UNCHANGED <<handler, auth, oauthVars, applyVars, loadVars, cliVars,
                   bootVars, handlers, last>>

\* _get_token of policy i, which its async flow awaits while its cache is
\* empty: the answer is stored in the policy, or the call raises.
GetToken(i, resp) ==
    /\ i <= Len(policies)
    /\ Kind(policies[i].auth) = "OAuth2Auth"
    /\ NeedsFetch(policies[i]._token)
    /\ last' = i
    /\ policies' =
           IF IsSuccess(resp.status) /\ resp.body.json
           THEN [policies EXCEPT ![TokenOwner(i)]._token = StoredToken(resp.body)]
           ELSE policies
    /\ UNCHANGED <<handler, auth, oauthVars, applyVars, loadVars, cliVars,
                   bootVars, handlers>>

NextInstances ==
    \/ \E h \in 1..2 : GetAuthOf(h)
    \/ \E i \in 1..MaxPolicies, resp \in Responses : GetToken(i, resp)

SpecInstances == InitInstances /\ [][NextInstances]_vars

\* ============================================================ claims

\* C1: OAuth2 policy, async flow, one instance, requests applied one after
\* another (no request is applied while another is in flight): when every
\* token exchange so far succeeded and returned an access_token, exactly one
\* token-exchange call has been issued however many applies were made (the
\* first apply issued it, every later one issued none), the cache holds the
\* token, and every request yielded by the async flow is signed with it.
C1_FetchOnceSequential ==
    (~overlapped /\ unpopulated = 0 /\ \E r \in Requests : flow[r] = "async") =>
        /\ calls = 1
        /\ \A r \in Requests :
               (flow[r] = "async" /\ pc[r] = "yielded") =>
                   /\ Truthy(_token)
                   /\ headers[r] = Str("Bearer " \o _token.v)
        /\ Cardinality({r \in Requests : flow[r] = "async" /\ ~Truthy(seen[r])}) = 1

\* Two async applies, one after the other, both yielded, the second one having
\* found the token cached; one call in all.
C1_Witness ==
    /\ ~overlapped /\ unpopulated = 0 /\ calls = 1
    /\ \A r \in Requests : flow[r] = "async" /\ pc[r] = "yielded"
    /\ \E r \in Requests : Truthy(seen[r]) /\ headers[r] = Str("Bearer " \o seen[r].v)

\* C2: OAuth2 policy: when the token endpoint answers with a non-success
\* status the apply raises (HTTPStatusError reaches the caller), no request is
\* yielded and no header is set, the step leaves the cache as it was (empty,
\* when requests are applied one after another) and issues no further call (no
\* retry: a raised apply stays raised); the next async apply that finds the
\* cache empty issues a new token exchange.
C2_FailurePropagates ==
    /\ [](\A r \in Requests :
            (status[r] # 0 /\ status[r] \notin 200..299) =>
                /\ pc[r] = "raised"
                /\ exc[r] = "HTTPStatusError"
                /\ headers[r] = PyNone)
    /\ [][\A r \in Requests :
            /\ (pc[r] = "fetching" /\ pc'[r] = "raised") =>
                   /\ _token' = _token
                   /\ calls' = calls
                   /\ (~overlapped => ~Truthy(_token'))
            /\ (pc[r] = "raised" => pc'[r] = "raised")
            /\ (pc[r] = "idle" /\ flow'[r] = "async" /\ ~Truthy(_token)) =>
                   (pc'[r] = "fetching" /\ calls' = calls + 1)]_vars

\* After a 401 on the first apply the second apply is fetching again: two
\* calls, an empty cache, nothing yielded.
C2_Witness ==
    \E r, q \in Requests :
        /\ r # q
        /\ pc[r] = "raised" /\ status[r] = 401 /\ exc[r] = "HTTPStatusError"
        /\ pc[q] = "fetching" /\ ~overlapped
        /\ calls = 2 /\ _token = PyNone

\* C3, as stated: once the cache holds a token no later operation, in any
\* interleaving of in-flight requests, changes or clears it.
C3_WriteOnce == [][Truthy(_token) => _token' = _token]_vars

\* C3, amended: once the cache holds a token, the only step that changes or
\* clears it is the store of a token exchange whose apply began while the cache
\* was still empty (a concurrent first use); an apply that begins once the
\* token is cached never changes it, and with requests applied one after
\* another the cache is write-once.
C3_OnlyRacingFetchOverwrites ==
    [][(Truthy(_token) /\ _token' # _token) =>
          /\ overlapped
          /\ \E r \in Requests :
                 /\ pc[r] = "fetching" /\ pc'[r] = "fetched"
                 /\ flow[r] = "async" /\ ~Truthy(seen[r])]_vars

\* An apply that began with the token cached has yielded and the cache still
\* holds that token.
C3_Witness ==
    \E r \in Requests :
        /\ flow[r] = "async" /\ pc[r] = "yielded"
        /\ Truthy(seen[r]) /\ _token = seen[r]

\* C4: OAuth2 policy under concurrency: there is no fetch-once guard. Every
\* async apply that finds the cache empty issues a token-exchange call of its
\* own, whatever the other in-flight requests are doing, so the calls issued
\* are as many as the async applies that found the cache empty.
C4_NoFetchOnceGuard ==
    calls = Cardinality({r \in Requests : flow[r] = "async" /\ ~Truthy(seen[r])})

\* The race: two token exchanges in flight at once on an empty cache.
C4_Witness ==
    /\ calls > 1
    /\ ~Truthy(_token)
    /\ Cardinality({r \in Requests : pc[r] = "fetching"}) > 1

\* C5: get_auth with auth_type "basic" returns a Basic policy (of the two
\* elements, in order) if and only if credentials has exactly two elements,
\* and otherwise raises "Basic authentication requires username and password";
\* only the count is tested, so a pair of empty strings is accepted.
C5_BasicArity ==
    (auth # Pending /\ auth_type = Str("basic")) =>
        IF credentials # PyNone /\ Len(credentials.v) = 2
        THEN /\ Kind(auth) = "BasicAuth"
             /\ auth.username = Elem(credentials, 1)
             /\ auth.password = Elem(credentials, 2)
        ELSE /\ Kind(auth) = "ValueError"
             /\ auth.msg = "Basic authentication requires username and password"

\* A pair of empty strings resolved to a Basic policy.
C5_Witness ==
    /\ auth_type = Str("basic")
    /\ credentials = Tuple(<<Str(""), Str("")>>)
    /\ auth = BasicAuth(Str(""), Str(""))

\* C6, as stated: get_auth with auth_type "bearer" returns a Bearer policy for
\* every non-null token value and raises "Bearer authentication requires a
\* token" exactly when the token is absent (null).
C6_BearerNullOnly ==
    (auth # Pending /\ auth_type = Str("bearer")) =>
        IF credentials = PyNone
        THEN auth = ValueError("Bearer authentication requires a token")
        ELSE auth = BearerAuth(credentials)

\* C6, amended: get_auth with auth_type "bearer" returns a Bearer policy
\* holding the credentials value for every non-empty value, and raises "Bearer
\* authentication requires a token" exactly when the value is null or empty
\* (the empty string, the empty tuple); nothing else about the value is tested.
C6_BearerNonEmpty ==
    (auth # Pending /\ auth_type = Str("bearer")) =>
        IF credentials = PyNone \/ Len(credentials.v) = 0
        THEN auth = ValueError("Bearer authentication requires a token")
        ELSE auth = BearerAuth(credentials)

\* The empty string, a non-null token, is refused.
C6_Witness ==
    /\ auth_type = Str("bearer")
    /\ credentials = Str("")
    /\ Kind(auth) = "ValueError"

\* C7: get_auth with auth_type "api_key" returns an ApiKey policy (location,
\* name, value in order) if and only if credentials has exactly three
\* elements, and otherwise raises "API key authentication requires location,
\* name, and value".
C7_ApiKeyArity ==
    (auth # Pending /\ auth_type = Str("api_key")) =>
        IF credentials # PyNone /\ Len(credentials.v) = 3
        THEN /\ Kind(auth) = "APIKeyAuth"
             /\ auth.location = Elem(credentials, 1)
             /\ auth.key_name = Elem(credentials, 2)
             /\ auth.key_value = Elem(credentials, 3)
        ELSE /\ Kind(auth) = "ValueError"
             /\ auth.msg = "API key authentication requires location, name, and value"

\* A two-element bundle (the value is missing) is refused with the message.
C7_Witness ==
    /\ auth_type = Str("api_key")
    /\ credentials # PyNone /\ credentials.t = "tuple" /\ Len(credentials.v) = 2
    /\ Kind(auth) = "ValueError"

\* C8: get_auth with the OAuth2 strategy ("oauth2") returns an OAuth2 policy
\* (token_url, client_id, client_secret, scope in order) if and only if
\* credentials has exactly four elements, and otherwise raises "OAuth2
\* authentication requires token URL, client ID, client secret, and scope".
C8_OAuth2Arity ==
    (auth # Pending /\ auth_type = Str("oauth2")) =>
        IF credentials # PyNone /\ Len(credentials.v) = 4
        THEN /\ Kind(auth) = "OAuth2Auth"
             /\ auth.token_url = Elem(credentials, 1)
             /\ auth.client_id = Elem(credentials, 2)
             /\ auth.client_secret = Elem(credentials, 3)
             /\ auth.scope = Elem(credentials, 4)
        ELSE /\ Kind(auth) = "ValueError"
             /\ auth.msg =
                    "OAuth2 authentication requires token URL, client ID, client secret, and scope"

\* A five-element bundle is refused with the message.
C8_Witness ==
    /\ auth_type = Str("oauth2")
    /\ credentials # PyNone /\ credentials.t = "tuple" /\ Len(credentials.v) = 5
    /\ Kind(auth) = "ValueError"

\* C9, as stated: resolving the tag "oauth2_client_credentials" gives an OAuth2
\* policy for a four-field bundle and fails for every other field count; it
\* never falls through to the no-op policy.
C9_LongTagResolves ==
    (auth # Pending /\ auth_type = Str("oauth2_client_credentials")) =>
        IF credentials # PyNone /\ Len(credentials.v) = 4
        THEN Kind(auth) = "OAuth2Auth"
        ELSE Kind(auth) = "ValueError"

\* C9, amended: the strategy tag set is {none, basic, bearer, api_key,
\* oauth2}: resolving the tag "oauth2" gives an OAuth2 policy for a four-field
\* bundle and fails for every other field count, never the no-op policy; the
\* tag "oauth2_client_credentials" is not recognized and resolves to the no-op
\* policy whatever the bundle.
C9_OAuth2TagResolves ==
    /\ (auth # Pending /\ auth_type = Str("oauth2")) =>
           /\ auth # PyNone
           /\ Kind(auth) =
                  IF credentials # PyNone /\ Len(credentials.v) = 4
                  THEN "OAuth2Auth" ELSE "ValueError"
    /\ (auth # Pending /\ auth_type = Str("oauth2_client_credentials")) =>
           auth = PyNone

\* The long tag with a well-formed four-field bundle resolved to no policy.
C9_Witness ==
    /\ auth_type = Str("oauth2_client_credentials")
    /\ credentials # PyNone /\ credentials.t = "tuple" /\ Len(credentials.v) = 4
    /\ auth = PyNone

\* C10: for strategy none/unset and for every tag outside the recognized set,
\* get_auth returns the no-op policy (None: no auth object) for every
\* credentials value, malformed or missing ones included, and never raises.
C10_UnrecognizedIsNoOp ==
    (auth # Pending
       /\ auth_type \notin {Str("basic"), Str("bearer"), Str("api_key"), Str("oauth2")})
        => auth = PyNone

\* An unknown tag with a one-element bundle, and no tag with no credentials,
\* both resolved to None.
C10_Witness ==
    /\ auth = PyNone
    /\ \/ auth_type = Str("invalid") /\ credentials # PyNone /\ Len(credentials.v) = 1
       \/ auth_type = PyNone /\ credentials = PyNone

\* C11: static header policies: after every apply the Bearer policy has set
\* the one Authorization header to "Bearer <configured token>" and the
\* ApiKey(header) policy has set the one header named key_name to key_value,
\* whatever value (or duplicates) the header had before; every invocation
\* gives the same request, the policy keeps the values the handler was built
\* with, and no token-exchange or other network call is made.
C11_StaticHeaderPolicies ==
    \A k \in 2..Len(hist) :
        LET hs == hist[k].headers
            Named(n) == {i \in 1..Len(hs) : Lower(hs[i].name) = Lower(n)}
        IN  /\ Kind(auth) = "BearerAuth" =>
                 /\ Cardinality(Named("Authorization")) = 1
                 /\ \A i \in Named("Authorization") :
                        hs[i].value = "Bearer " \o credentials.v
                 /\ hist[k] = hist[2]
                 /\ calls = 0
            /\ (Kind(auth) = "APIKeyAuth" /\ credentials.v[1] = Str("header")) =>
                 /\ Cardinality(Named(credentials.v[2].v)) = 1
                 /\ \A i \in Named(credentials.v[2].v) :
                        hs[i].value = credentials.v[3].v
                 /\ hist[k] = hist[2]
                 /\ calls = 0

\* A request that came with an old authorization header, applied twice by the
\* Bearer policy; and one that came with two x-api-key headers, applied by the
\* ApiKey(header) policy.
C11_Witness ==
    /\ Len(hist) = 3
    /\ \/ /\ Kind(auth) = "BearerAuth"
          /\ \E i \in 1..Len(hist[1].headers) :
                 hist[1].headers[i] = Header("authorization", "old")
          /\ request.headers[1] = Header("Authorization", "Bearer tok")
       \/ /\ Kind(auth) = "APIKeyAuth" /\ auth.location = Str("header")
          /\ auth.key_name = Str("X-API-Key")
          /\ Len(hist[1].headers) = 3 /\ Len(request.headers) = 2

\* C12: ApiKey(query) policy: after every apply the URL has exactly one query
\* parameter named key_name and its value is key_value, whatever that
\* parameter held before; applying the policy twice gives the same URL as
\* applying it once.
C12_QueryIdempotent ==
    (Kind(auth) = "APIKeyAuth" /\ auth.location = Str("query")) =>
        \A k \in 2..Len(hist) :
            LET q == hist[k].query
                named == {i \in 1..Len(q) : q[i].key = credentials.v[2].v}
            IN  /\ Cardinality(named) = 1
                /\ \A i \in named : q[i].value = credentials.v[3].v
                /\ hist[k].query = hist[2].query

\* A URL that came with the parameter twice, applied twice: it is there once.
C12_Witness ==
    /\ Kind(auth) = "APIKeyAuth" /\ auth.location = Str("query")
    /\ auth.key_name = Str("api_key")
    /\ Len(hist) = 3
    /\ Cardinality({i \in 1..Len(hist[1].query) : hist[1].query[i].key = "api_key"}) = 2
    /\ request.query = <<Param("b", "1"), Param("api_key", auth.key_value.v)>>

\* C13: frame of apply: a policy changes only its designated request field.
\* Bearer, ApiKey(header) and OAuth2 leave the URL and every other header as
\* they were; ApiKey(query) leaves all headers and every other query
\* parameter as they were, parameters whose key occurs more than once
\* included.
C13_FrameOfApply ==
    \A k \in 2..Len(hist) :
        LET hs0 == hist[1].headers
            hs1 == hist[k].headers
            q0 == hist[1].query
            q1 == hist[k].query
            OtherHeaders(hs, n) ==
                Pick(hs, {i \in 1..Len(hs) : Lower(hs[i].name) # Lower(n)}, 1)
            OtherParams(q, n) == Pick(q, {i \in 1..Len(q) : q[i].key # n}, 1)
        IN  /\ Kind(auth) \in {"BearerAuth", "OAuth2Auth"} =>
                 /\ q1 = q0
                 /\ OtherHeaders(hs1, "Authorization") = OtherHeaders(hs0, "Authorization")
            /\ (Kind(auth) = "APIKeyAuth" /\ auth.location = Str("header")) =>
                 /\ q1 = q0
                 /\ OtherHeaders(hs1, auth.key_name.v) = OtherHeaders(hs0, auth.key_name.v)
            /\ (Kind(auth) = "APIKeyAuth" /\ auth.location = Str("query")) =>
                 /\ hs1 = hs0
                 /\ OtherParams(q1, auth.key_name.v) = OtherParams(q0, auth.key_name.v)

\* The standard reading of a Basic Authorization header: base64-decode what
\* follows "Basic ", then split at the first ":".
B64Index(c) == CHOOSE n \in 0..63 : B64Char(n) = c

RECURSIVE b64decode(_)
b64decode(s) ==
    IF Len(s) < 4 THEN <<>>
    ELSE LET c3 == SubSeq(s, 3, 3)
             c4 == SubSeq(s, 4, 4)
             n1 == B64Index(SubSeq(s, 1, 1))
             n2 == B64Index(SubSeq(s, 2, 2))
             b1 == n1 * 4 + n2 \div 16
         IN  IF c3 = "=" THEN <<b1>>
             ELSE LET b2 == (n2 % 16) * 16 + B64Index(c3) \div 4
                  IN  IF c4 = "=" THEN <<b1, b2>>
                      ELSE <<b1, b2, (B64Index(c3) % 4) * 64 + B64Index(c4)>>
                               \o b64decode(SubSeq(s, 5, Len(s)))

RECURSIVE from_bytes(_)
from_bytes(b) ==
    IF Len(b) = 0 THEN ""
    ELSE (CHOOSE c \in {":", "p", "u"} : Ord(c) = b[1])
             \o from_bytes(SubSeq(b, 2, Len(b)))

DecodeBasic(h) ==
    LET t == from_bytes(b64decode(SubSeq(h, 7, Len(h))))
        colons == {i \in 1..Len(t) : SubSeq(t, i, i) = ":"}
    IN  IF SubSeq(h, 1, 6) # "Basic " \/ colons = {} THEN <<>>
        ELSE LET i == CHOOSE c \in colons : \A d \in colons : c <= d
             IN  <<SubSeq(t, 1, i - 1), SubSeq(t, i + 1, Len(t))>>

HasColon(s) == \E i \in 1..Len(s) : SubSeq(s, i, i) = ":"

\* C14, as stated: Basic policy round trip: for every username and password
\* accepted by resolve, values that contain ":" included, apply on a request
\* with empty headers sets an Authorization header whose decoding gives
\* back exactly the original (username, password) pair.
C14_BasicRoundTripAll ==
    (Kind(auth) = "BasicAuth" /\ Len(hist) >= 2 /\ hist[1].headers = <<>>) =>
        /\ Len(request.headers) = 1
        /\ request.headers[1].name = "Authorization"
        /\ DecodeBasic(request.headers[1].value)
               = <<credentials.v[1].v, credentials.v[2].v>>

\* C14, amended: Basic policy round trip: for every username that does not
\* contain ":" and every password (one that contains ":" included), apply on
\* a request with empty headers sets an Authorization header whose decoding
\* gives back exactly the original (username, password) pair.
C14_BasicRoundTrip ==
    (Kind(auth) = "BasicAuth" /\ Len(hist) >= 2 /\ hist[1].headers = <<>>
       /\ ~HasColon(credentials.v[1].v)) =>
        /\ Len(request.headers) = 1
        /\ request.headers[1].name = "Authorization"
        /\ DecodeBasic(request.headers[1].value)
               = <<credentials.v[1].v, credentials.v[2].v>>

\* User "u" with the password ":p", on empty headers: the header decodes to
\* that pair.
C14_Witness ==
    /\ Kind(auth) = "BasicAuth" /\ Len(hist) >= 2 /\ hist[1].headers = <<>>
    /\ credentials = Tuple(<<Str("u"), Str(":p")>>)
    /\ DecodeBasic(request.headers[1].value) = <<"u", ":p">>

\* What the call of op did, when this run made that call.
Ran(op) == loaded # Unused /\ loaded.op = op
Logged(e) == \E i \in 1..Len(loaded.events) : loaded.events[i] = e

\* C15, as stated: is_url is true exactly when the input parses with a scheme
\* in {http, https} and a non-empty host; every other input is treated by
\* load_from_path_or_url as a local file path and never reaches the download
\* step.
C15_UrlNeedsHost ==
    LET u == urlparse(path_or_url)
        url == u.scheme \in {"http", "https"} /\ u.netloc # ""
    IN  /\ is_url(path_or_url) <=> url
        /\ (Ran("load_from_path_or_url") /\ ~url) =>
               /\ loaded.events[1] = "exists"
               /\ ~Logged("download_from_url")

\* C15, amended: is_url is true exactly when the input parses with a scheme in
\* {http, https}, whatever its host; an input with no or another scheme is
\* treated by load_from_path_or_url as a local file path and never reaches
\* the download step; an http(s) input, an empty host included, is never
\* looked up as a file and goes to the download step, which refuses the one
\* with an empty host as an invalid URL before any network request.
C15_UrlByScheme ==
    LET u == urlparse(path_or_url)
        http == u.scheme \in {"http", "https"}
    IN  /\ is_url(path_or_url) <=> http
        /\ (Ran("load_from_path_or_url") /\ ~http) =>
               /\ loaded.events[1] = "exists"
               /\ ~Logged("download_from_url")
        /\ (Ran("load_from_path_or_url") /\ http) =>
               /\ loaded.events[1] = "download_from_url"
               /\ ~Logged("exists")
        /\ (Ran("load_from_path_or_url") /\ http /\ u.netloc = "") =>
               /\ loaded.events = <<"download_from_url">>
               /\ loaded.result = ValueError("Invalid URL: " \o path_or_url)

\* "http:///p" has the scheme http and no host: it went to the download step.
C15_Witness ==
    /\ Ran("load_from_path_or_url")
    /\ path_or_url = "http:///p"
    /\ loaded.result = ValueError("Invalid URL: http:///p")

\* C16: parse with fallback, load_from_content and load_from_file of an
\* existing file: when the YAML parser does not raise, the result is its
\* result (None for empty input, a scalar string for plain text) and JSON
\* is not consulted; JSON is consulted only after a YAML error, on the whole
\* text, and when both parsers fail the error that surfaces is the JSON one.
C16_YamlFirst ==
    (Ran("load_from_content") \/ (Ran("load_from_file") /\ fs = "file")) =>
        LET y == yaml_safe_load(text)
            json == Logged("json.loads") \/ Logged("json.load")
        IN  /\ Logged("yaml.safe_load")
            /\ ~IsError(y) => (loaded.result = y /\ ~json)
            /\ text = EmptyText => loaded.result = PyNone
            /\ text = PlainText => loaded.result = Str(PlainText)
            /\ json <=> IsError(y)
            /\ IsError(y) =>
                   /\ loaded.result = json_loads(text)
                   /\ loaded.events[Len(loaded.events)] \in {"json.loads", "json.load"}
            /\ (IsError(y) /\ IsError(json_loads(text))) =>
                   Kind(loaded.result) = "JSONDecodeError"

\* A text neither parser takes: YAML was tried, then JSON, whose error
\* surfaced.
C16_Witness ==
    /\ Ran("load_from_content")
    /\ text = BrokenText
    /\ loaded.events = <<"yaml.safe_load", "json.loads">>
    /\ loaded.result = Raised("JSONDecodeError")

\* C17: load_from_path_or_url on an input classified as a local path whose
\* file does not exist raises FileNotFoundError "File not found: <path>"
\* having only asked whether the path exists: nothing was opened, read,
\* parsed or requested over the network.
C17_MissingFile ==
    (Ran("load_from_path_or_url") /\ ~is_url(path_or_url) /\ fs = "missing") =>
        /\ loaded.result = FileNotFoundError("File not found: " \o path_or_url)
        /\ loaded.events = <<"exists">>

C17_Witness ==
    /\ Ran("load_from_path_or_url")
    /\ path_or_url = "/local/path.yaml" /\ fs = "missing"
    /\ loaded.result = FileNotFoundError("File not found: /local/path.yaml")

\* C18: download_from_url refuses a URL without a scheme, without a host or
\* with a scheme other than http and https with "Invalid URL: <url>" and
\* no network request; for any other URL it makes exactly one request, and
\* a network or HTTP error of that request is what the caller gets.
C18_DownloadValidates ==
    Ran("download_from_url") =>
        LET u == urlparse(path_or_url)
            bad == \/ u.scheme = ""
                   \/ u.netloc = ""
                   \/ u.scheme \notin {"http", "https"}
            opens == {i \in 1..Len(loaded.events) : loaded.events[i] = "urlopen"}
        IN  /\ bad => /\ loaded.result = ValueError("Invalid URL: " \o path_or_url)
                      /\ opens = {}
            /\ ~bad => /\ Cardinality(opens) = 1
                       /\ net \in {"URLError", "HTTPError"} =>
                              loaded.result = Raised(net)
                       /\ net = "ok" => loaded.result = Str(text)

\* An accepted URL whose one request ended in an HTTP error.
C18_Witness ==
    /\ Ran("download_from_url")
    /\ path_or_url = "https://h/s" /\ net = "HTTPError"
    /\ loaded.events = <<"download_from_url", "urlopen">>
    /\ loaded.result = Raised("HTTPError")

\* C19: generate: every failing invocation (no --path option, an
\* authentication option missing, a spec file that does not exist, an error
\* raised while the spec is loaded or the server is set up) ends with an exit
\* code other than zero and an error message; the exit code is zero only
\* when the call of the server bootstrap returned without error.
C19_FailuresExitNonZero ==
    cli.stage = "exited" =>
        /\ cli.exit_code = 0 => cli.returned
        /\ ~cli.returned => (cli.exit_code # 0 /\ cli.err # <<>>)

\* The options the selected authentication type requires, the bundle made
\* of them and the message for a missing one.
Required(o) ==
    CASE o.auth_type = Str("basic") -> <<o.basic_username, o.basic_password>>
      [] o.auth_type = Str("bearer") -> <<o.bearer_token>>
      [] o.auth_type = Str("api_key") ->
           <<o.api_key_location, o.api_key_name, o.api_key_value>>
      [] o.auth_type = Str("oauth2") ->
           <<o.oauth_token_url, o.oauth_client_id, o.oauth_client_secret,
             o.oauth_scope>>
      [] OTHER -> <<>>
Bundle(o) ==
    CASE o.auth_type = PyNone -> PyNone
      [] o.auth_type = Str("bearer") -> o.bearer_token
      [] OTHER -> Tuple(Required(o))
TypeMessage(o) ==
    CASE o.auth_type = Str("basic") ->
           "Basic authentication requires both username and password."
      [] o.auth_type = Str("bearer") -> "Bearer authentication requires a token."
      [] o.auth_type = Str("api_key") ->
           "API key authentication requires location, name, and value."
      [] o.auth_type = Str("oauth2") ->
           "OAuth2 authentication requires token URL, client ID, client secret, and scope."
      [] OTHER -> ""
Complete(o) == \A i \in 1..Len(Required(o)) : Truthy(Required(o)[i])
Selected == [argv EXCEPT !.auth_type = Choice(@, AuthTypeChoices)]
Shows(msg) == \E i \in 1..Len(cli.err) : cli.err[i] = "Error: " \o msg

C21_UrlPathAccepted ==
    (cli.stage = "exited" /\ UsageErrors(argv) = {} /\ is_url(argv.path.v)) =>
        /\ ~Shows("Input file not found: " \o argv.path.v)
        /\ cli.out # <<>>

\* The places of the calls of that name among the calls the bootstrap made.
At(name) == {i \in 1..Len(boot.events) : boot.events[i].call = name}

\* C22: no partial success in the bootstrap: the parsing of the spec and the
\* resolution of the policy come before the client is built, the client
\* before the tool generation and that before the run of the server; and
\* when the parsing or get_auth raises, no client is built, no tool
\* generation is called and the server is never run.
C22_NoPartialSuccess ==
    boot # Unused =>
        LET parsed == IF boot_args.openapi_spec.t = "str"
                      THEN load_from_content(boot_args.openapi_spec.v).result
                      ELSE boot_args.openapi_spec
            raised == \/ "kind" \in DOMAIN parsed
                      \/ Kind(get_auth(auth_type, credentials)) = "ValueError"
        IN  /\ \A i \in At("load_from_content") \cup At("get_auth"),
                  j \in At("AsyncClient") \cup At("from_openapi") \cup At("run") :
                   i < j
            /\ \A i \in At("AsyncClient"), j \in At("from_openapi") \cup At("run") :
                   i < j
            /\ \A i \in At("from_openapi"), j \in At("run") : i < j
            /\ raised =>
                   /\ At("AsyncClient") = {}
                   /\ At("from_openapi") = {}
                   /\ At("run") = {}
                   /\ "kind" \in DOMAIN boot.result

\* The spec was parsed, get_auth refused the credentials: the call ended
\* there with the ValueError.
C22_Witness ==
    /\ boot # Unused
    /\ boot_args.openapi_spec = Str(JsonText)
    /\ auth_type = Str("basic")
    /\ Len(boot.events) = 2
    /\ boot.events[2].call = "get_auth"
    /\ boot.result = ValueError(BasicMessage)

\* C23: wiring of the bootstrap: when the call returns, it has built one
\* client with the given base_url and the policy get_auth gave (None with
\* no auth type), has parsed the spec only if it was a string and passed a
\* mapping on as it was, has called the tool generation once with that spec,
\* that client and the name, and has run the server once with transport
\* "http" and the given host and port.
C23_Wiring ==
    (boot # Unused /\ boot.result = PyNone) =>
        LET spec == IF boot_args.openapi_spec.t = "str"
                    THEN load_from_content(boot_args.openapi_spec.v).result
                    ELSE boot_args.openapi_spec
            client == [base_url |-> boot_args.base_url,
                       auth |-> get_auth(auth_type, credentials)]
        IN  /\ Cardinality(At("AsyncClient")) = 1
            /\ \A i \in At("AsyncClient") : boot.events[i].args = client
            /\ auth_type = PyNone => client.auth = PyNone
            /\ Cardinality(At("load_from_content")) =
                   (IF boot_args.openapi_spec.t = "str" THEN 1 ELSE 0)
            /\ Cardinality(At("from_openapi")) = 1
            /\ \A i \in At("from_openapi") :
                   boot.events[i].args =
                       [openapi_spec |-> spec, client |-> client,
                        name |-> boot_args.name]
            /\ Cardinality(At("run")) = 1
            /\ \A i \in At("run") :
                   boot.events[i].args =
                       [transport |-> "http", host |-> boot_args.host,
                        port |-> boot_args.port]

\* A mapping and a bearer token, the call returned: the mapping went to the
\* tool generation as it was, with the client that carries the policy.
C23_Witness ==
    /\ boot # Unused /\ boot.result = PyNone
    /\ boot_args.openapi_spec = Dict(<<"openapi", "3.0.0">>)
    /\ auth_type = Str("bearer")
    /\ Len(boot.events) = 4
    /\ boot.events[3].args.openapi_spec = Dict(<<"openapi", "3.0.0">>)
    /\ Kind(boot.events[3].args.client.auth) = "BearerAuth"

\* C24: deferred OAuth2 failure: get_auth makes no token exchange and gives
\* a policy with an empty cache whatever the token endpoint would answer, so
\* as long as no request has been applied there is no call, no token and no
\* failure; an exchange is issued, and fails, only in the apply of a request.
C24_DeferredFailure ==
    /\ (\A r \in Requests : pc[r] = "idle") =>
           /\ calls = 0
           /\ _token = PyNone
           /\ \A r \in Requests : exc[r] = "" /\ status[r] = 0
    /\ (auth # Pending /\ auth_type = Str("oauth2") /\ credentials.t = "tuple"
          /\ PyLen(credentials) = 4) => Kind(auth) = "OAuth2Auth"
    /\ calls > 0 => \E r \in Requests : flow[r] = "async"
    /\ \A r \in Requests :
           exc[r] # "" => (flow[r] = "async" /\ pc[r] = "raised" /\ status[r] # 0)

\* The policy was resolved, and the first request applied met a token
\* endpoint that answers 503.
C24_Witness ==
    /\ Kind(auth) = "OAuth2Auth"
    /\ calls = 1
    /\ \E r \in Requests : exc[r] = "HTTPStatusError" /\ status[r] = 503

\* C25: OAuth2 signing safety: every request an OAuth2 policy has yielded
\* carries "Bearer t" where t is an access_token string that a token
\* exchange of the policy returned; no request is yielded with no token or
\* with a stand-in.
C25_SignedWithExchangedToken ==
    \A r \in Requests :
        pc[r] = "yielded" =>
            /\ calls >= 1
            /\ \E t \in AccessTokens : t.t = "str" /\ headers[r] = Bearer(t)

\* C26: the synchronous and the asynchronous flow of the OAuth2 policy are
\* equivalent: two requests that found the cache in the same state, one
\* applied by each flow, are yielded with the same Authorization header,
\* and a request that found the cache empty is yielded only after a token
\* exchange was made for it, by either flow.
C26_SyncEqualsAsync ==
    /\ \A r \in Requests, q \in Requests :
           (/\ pc[r] = "yielded" /\ pc[q] = "yielded"
            /\ flow[r] = "sync" /\ flow[q] = "async"
            /\ seen[r] = seen[q]) => headers[r] = headers[q]
    /\ \A r \in Requests :
           (pc[r] = "yielded" /\ ~Truthy(seen[r])) => status[r] # 0

\* C27: token caches are per policy instance: a token exchange changes
\* the cache of the policy that made it and of no other policy, whether the
\* two came from the same handler or not; a new policy starts with an empty
\* cache and leaves the others as they were; and no step, get_auth included,
\* changes a handler's auth_type or credentials.
C27_PerInstanceCache ==
    [][/\ handlers' = handlers
       /\ \A i \in 1..Len(policies) : i # last' => policies'[i] = policies[i]
       /\ Len(policies') > Len(policies) =>
              /\ \A i \in 1..Len(policies) : policies'[i] = policies[i]
              /\ policies'[Len(policies')]._token = PyNone]_vars

\* Two OAuth2 policies of the same handler, each with the token of its own
\* exchange.
C27_Witness ==
    /\ Len(policies) = 2
    /\ policies[1].handler = policies[2].handler
    /\ policies[1]._token = Str("t1")
    /\ policies[2]._token = Str("t2")

\* C28: the resolver does not check the location of an API key: get_auth
\* with "api_key" and three fields whose location is neither "header" nor
\* "query" gives a policy, and every apply of that policy yields the
\* request as it was: no header, no query parameter, no error.
C28_OtherLocationNoOp ==
    (/\ auth # Pending
     /\ auth_type = Str("api_key")
     /\ credentials.t = "tuple" /\ PyLen(credentials) = 3
     /\ credentials.v[1] \notin {Str("header"), Str("query")}) =>
        /\ Kind(auth) = "APIKeyAuth"
        /\ \A k \in 1..Len(hist) : hist[k] = hist[1]

\* The location "cookie": the policy was applied twice to a request that has
\* headers and parameters, and the request is as it was built.
C28_Witness ==
    /\ Kind(auth) = "APIKeyAuth" /\ auth.location = Str("cookie")
    /\ Len(hist) = 3
    /\ Len(request.headers) = 3 /\ Len(request.query) = 3
    /\ request = hist[1]

\* C29: the validation of generate implies that of the resolver: get_auth
\* accepts every (auth_type, credentials) pair generate hands to the
\* bootstrap, giving a policy when a type was selected; and every type the
\* command line lets the user select has a branch of its own in get_auth
\* (which refuses missing credentials) and does not fall to the silent
\* fallback.
C29_CliImpliesResolver ==
    /\ \A c \in AuthTypeChoices : Kind(get_auth(Str(c), PyNone)) = "ValueError"
    /\ cli.stage = "exited" =>
           \A i \in 1..Len(cli.calls) :
               LET a == get_auth(cli.calls[i].auth_type, cli.calls[i].credentials)
               IN  /\ Kind(a) # "ValueError"
                   /\ cli.calls[i].auth_type # PyNone => a # PyNone

\* generate handed on an api_key bundle, from which get_auth makes a policy.
C29_Witness ==
    /\ cli.stage = "exited"
    /\ Len(cli.calls) = 1
    /\ cli.calls[1].auth_type = Str("api_key")
    /\ Kind(get_auth(cli.calls[1].auth_type, cli.calls[1].credentials)) = "APIKeyAuth"

\* C30: load_from_file and load_from_content agree: loading a file gives what
\* load_from_content gives on the text of the file, result or error; after
\* a YAML error the JSON fallback of load_from_file reads the text from its
\* start.
C30_FileEqualsContent ==
    (Ran("load_from_file") /\ fs = "file") =>
        /\ loaded.result = load_from_content(text).result
        /\ Logged("seek") <=> Logged("json.load")
        /\ Logged("json.load") => loaded.result = json_loads(text)

\* A file of JSON that YAML refuses: the fallback read all of it.
C30_Witness ==
    /\ Ran("load_from_file") /\ fs = "file"
    /\ text = TabbedJsonText
    /\ Logged("seek")
    /\ loaded.result = Dict(<<"a", "1">>)

====
